---------------------------- MODULE Spec2Model ----------------------------
(***************************************************************************)
(* Model of the BOT GPT conversational backend: the history truncator and  *)
(* token estimator (app/services/llm_service.py), the retrieval scorer and *)
(* context assembler (app/services/rag_service.py), the conversation       *)
(* service (app/services/conversation_service.py) and its HTTP routes      *)
(* (app/routers/conversations.py).                                         *)
(*                                                                         *)
(* A text (Python str) is a sequence of one-character strings, so that     *)
(* len, lower, split, strip, slicing and substring search are computed on  *)
(* characters as the code computes them.                                   *)
(***************************************************************************)
EXTENDS Integers, Sequences, FiniteSets, TLC

VARIABLES
    \* ---- harness of LLMService.truncate_messages
    t_messages,     \* the message list handed to truncate_messages
    t_max_tokens,   \* the token budget handed to it
    t_result,       \* the list it returned
    t_pc,           \* "call" before the call, "done" after it
    \* ---- harness of RAGService
    g_db,           \* the store: conversations, links, documents
    g_query,        \* user_query
    g_top_k,        \* top_k handed to retrieve_relevant_chunks
    g_chunks,       \* what retrieve_relevant_chunks returned
    g_context,      \* what construct_rag_context returned
    g_pc,           \* "call", "retrieved", "done"
    \* ---- the service: the committed store
    users,              \* rows of table users
    conversations,      \* rows of table conversations
    messages,           \* rows of table messages
    document_links,     \* rows of table conversation_documents
    documents,          \* rows of table documents
    next_id,            \* next primary key of each table
    clock,              \* the store's clock (func.now())
    \* ---- the service: the requests being handled, one per worker
    pc,                 \* where each worker's handler stands
    req,                \* the request a worker handles
    session,            \* the worker's Session: rows added, not committed
    gen,                \* locals of _generate_response
    resp,               \* the HTTP response of the handler
    llm_calls,          \* external model calls made for the request
    started,            \* number of requests received so far
    \* ---- history
    deleted             \* ids of the conversations DELETE answered 204 for

truncVars == <<t_messages, t_max_tokens, t_result, t_pc>>

ragVars == <<g_db, g_query, g_top_k, g_chunks, g_context, g_pc>>

storeVars ==
    <<users, conversations, messages, document_links, documents, next_id,
      clock>>

workerVars == <<pc, req, session, gen, resp, llm_calls, started>>

sysVars == <<storeVars, workerVars, deleted>>

vars == <<truncVars, ragVars, sysVars>>

-----------------------------------------------------------------------------
(* Generic helpers on sequences and sets.                                  *)

Range(s) == {s[i] : i \in DOMAIN s}

\* All sequences over S of length 0..n.
SeqsUpTo(S, n) == UNION {[1..k -> S] : k \in 0..n}

RECURSIVE SumSeq(_)
SumSeq(s) == IF s = <<>> THEN 0 ELSE s[1] + SumSeq(Tail(s))

\* The number of times each entry occurs in a sequence.
BagOf(s) == [x \in Range(s) |-> Cardinality({i \in DOMAIN s : s[i] = x})]

\* Python's list.insert(idx, x): a negative index counts from the end, and an
\* index outside the list is clamped to its nearest end.
PyInsert(s, idx, x) ==
    LET n  == Len(s)
        i0 == IF idx < 0 THEN idx + n ELSE idx
        i  == IF i0 < 0 THEN 0 ELSE IF i0 > n THEN n ELSE i0
    IN  SubSeq(s, 1, i) \o <<x>> \o SubSeq(s, i + 1, n)

-----------------------------------------------------------------------------
(* LLMService: token estimator and history truncator.                      *)

\* self.max_tokens
max_tokens == 2048

\* self.max_context_tokens
max_context_tokens == 32768

\* estimate_tokens: len(text) // 4
estimate_tokens(text) == Len(text) \div 4

\* message_tokens: the estimated cost of every entry, in order
message_tokens(msgs) ==
    [i \in DOMAIN msgs |-> estimate_tokens(msgs[i].content)]

\* The "for i in range(len(messages) - 1, start_idx - 1, -1)" loop.  i is the
\* Python (0-based) index of the entry under consideration; the loop ends when
\* i passes start_idx or at the first entry that does not fit (break).
RECURSIVE truncate_loop(_, _, _, _, _, _)
truncate_loop(msgs, max, start_idx, i, result, total_tokens) ==
    IF i < start_idx THEN result
    ELSE IF total_tokens + message_tokens(msgs)[i + 1] <= max
         THEN truncate_loop(msgs, max, start_idx, i - 1,
                  PyInsert(result, Len(result) - (Len(msgs) - i),
                           msgs[i + 1]),
                  total_tokens + message_tokens(msgs)[i + 1])
         ELSE result

WithinLimitStrict(total_tokens, max) == total_tokens < max

\* "if total_tokens <= max_tokens: return messages"
WithinLimit(total_tokens, max) == total_tokens <= max

truncate_messages_drops_big_system(msgs, max) ==
    IF msgs = <<>> THEN msgs
    ELSE IF WithinLimit(SumSeq(message_tokens(msgs)), max) THEN msgs
    ELSE IF msgs[1].role = "system" /\ message_tokens(msgs)[1] <= max
         THEN truncate_loop(msgs, max, 1, Len(msgs) - 1,
                            <<msgs[1]>>, message_tokens(msgs)[1])
         ELSE truncate_loop(msgs, max, 0, Len(msgs) - 1,
                            <<>>, SumSeq(message_tokens(msgs)))

\* truncate_messages(messages, max_tokens, keep_system = True)
truncate_messages(msgs, max) ==
    IF msgs = <<>> THEN msgs
    ELSE IF WithinLimit(SumSeq(message_tokens(msgs)), max) THEN msgs
    ELSE IF msgs[1].role = "system"
         THEN truncate_loop(msgs, max, 1, Len(msgs) - 1,
                            <<msgs[1]>>, message_tokens(msgs)[1])
         ELSE truncate_loop(msgs, max, 0, Len(msgs) - 1,
                            <<>>, SumSeq(message_tokens(msgs)))


-----------------------------------------------------------------------------
(* Text operations of the Python str type used by the services.            *)

UpperCase ==
    <<"A", "B", "C", "D", "E", "F", "G", "H", "I", "J", "K", "L", "M",
      "N", "O", "P", "Q", "R", "S", "T", "U", "V", "W", "X", "Y", "Z">>

LowerCase ==
    <<"a", "b", "c", "d", "e", "f", "g", "h", "i", "j", "k", "l", "m",
      "n", "o", "p", "q", "r", "s", "t", "u", "v", "w", "x", "y", "z">>

LowerOf ==
    [c \in Range(UpperCase) |->
        LowerCase[CHOOSE i \in DOMAIN UpperCase : UpperCase[i] = c]]

lower_char(c) == IF c \in DOMAIN LowerOf THEN LowerOf[c] ELSE c

\* str.lower()
lower(text) == [i \in DOMAIN text |-> lower_char(text[i])]

IsSpace(c) == c \in {" ", "\t", "\n"}

\* str.split(): the maximal runs of non-whitespace characters, in order.
RECURSIVE split(_)
split(text) ==
    IF text = <<>> THEN <<>>
    ELSE IF IsSpace(text[1]) THEN split(Tail(text))
    ELSE LET n == CHOOSE k \in 1..Len(text) :
                      /\ \A j \in 1..k : ~IsSpace(text[j])
                      /\ k = Len(text) \/ IsSpace(text[k + 1])
         IN  <<SubSeq(text, 1, n)>> \o split(SubSeq(text, n + 1, Len(text)))

\* str.split(sep) for a one-character separator: every field, empty ones too.
RECURSIVE split_on(_, _)
split_on(text, sep) ==
    IF \A i \in DOMAIN text : text[i] # sep THEN <<text>>
    ELSE LET k == CHOOSE i \in DOMAIN text :
                      text[i] = sep /\ \A j \in 1..i - 1 : text[j] # sep
         IN  <<SubSeq(text, 1, k - 1)>>
             \o split_on(SubSeq(text, k + 1, Len(text)), sep)

\* str.strip()
RECURSIVE strip(_)
strip(text) ==
    IF text = <<>> THEN text
    ELSE IF IsSpace(text[1]) THEN strip(Tail(text))
    ELSE IF IsSpace(text[Len(text)]) THEN strip(SubSeq(text, 1, Len(text) - 1))
    ELSE text

\* "sub in text": substring search
contains(sub, text) ==
    \E i \in 0..Len(text) - Len(sub) : SubSeq(text, i + 1, i + Len(sub)) = sub

\* str(i) of a non-negative integer
DigitChars == <<"0", "1", "2", "3", "4", "5", "6", "7", "8", "9">>

RECURSIVE int_to_str(_)
int_to_str(n) ==
    IF n < 10 THEN <<DigitChars[n + 1]>>
    ELSE int_to_str(n \div 10) \o <<DigitChars[(n % 10) + 1]>>

RECURSIVE Flatten(_)
Flatten(ss) == IF ss = <<>> THEN <<>> ELSE Head(ss) \o Flatten(Tail(ss))

Min(a, b) == IF a <= b THEN a ELSE b

\* The elements of a set of records with distinct ids, in ascending id order.
RECURSIVE OrderById(_)
OrderById(S) ==
    IF S = {} THEN <<>>
    ELSE LET m == CHOOSE x \in S : \A y \in S : x.id <= y.id
         IN  <<m>> \o OrderById(S \ {m})

-----------------------------------------------------------------------------
(* RAGService: retrieval scorer and context assembler.  db is the view of  *)
(* the store a session reads: its conversations, links and documents.      *)

\* top_k: int = 3
DefaultTopK == 3

\* set(text.lower().split())
word_set(text) == Range(split(lower(text)))

RECURSIVE chunk_candidates_unfiltered(_, _, _)
chunk_candidates_unfiltered(chunks, filename, query_words) ==
    IF chunks = <<>> THEN <<>>
    ELSE <<[text |-> Head(chunks).text,
            score |-> Cardinality(query_words
                                  \cap word_set(Head(chunks).text)),
            source |-> filename]>>
         \o chunk_candidates_unfiltered(Tail(chunks), filename, query_words)

\* The "for chunk in doc.chunks" loop: one candidate per precomputed chunk
\* that shares at least one word with the query, scored by the overlap.
RECURSIVE chunk_candidates(_, _, _)
chunk_candidates(chunks, filename, query_words) ==
    IF chunks = <<>> THEN <<>>
    ELSE LET matches ==
                 Cardinality(query_words \cap word_set(Head(chunks).text))
         IN  (IF matches > 0
              THEN <<[text |-> Head(chunks).text, score |-> matches,
                      source |-> filename]>>
              ELSE <<>>)
             \o chunk_candidates(Tail(chunks), filename, query_words)

\* The "for sent in sentences[:top_k]" loop: one candidate per sentence that
\* contains a query word as a substring, scored with the document's overlap.
RECURSIVE sentence_candidates(_, _, _, _)
sentence_candidates(sentences, matches, filename, query_words) ==
    IF sentences = <<>> THEN <<>>
    ELSE (IF \E word \in query_words : contains(word, lower(Head(sentences)))
          THEN <<[text |-> strip(Head(sentences)), score |-> matches,
                  source |-> filename]>>
          ELSE <<>>)
         \o sentence_candidates(Tail(sentences), matches, filename, query_words)

\* The body of "for doc in documents": precomputed chunks when the document
\* has any, else the first top_k period-delimited sentences of its content.
doc_candidates(doc, query_words, top_k) ==
    IF doc.chunks # <<>>
    THEN chunk_candidates(doc.chunks, doc.filename, query_words)
    ELSE IF doc.content # <<>>
    THEN LET matches == Cardinality(query_words \cap word_set(doc.content))
             sentences == split_on(doc.content, ".")
         IN  IF matches > 0
             THEN sentence_candidates(
                      SubSeq(sentences, 1, Min(top_k, Len(sentences))),
                      matches, doc.filename, query_words)
             ELSE <<>>
    ELSE <<>>

\* relevant_chunks before the sort: the candidates in collection order.
RECURSIVE collect_candidates(_, _, _)
collect_candidates(docs, query_words, top_k) ==
    IF docs = <<>> THEN <<>>
    ELSE doc_candidates(Head(docs), query_words, top_k)
         \o collect_candidates(Tail(docs), query_words, top_k)

\* list.sort(key = score, reverse = True): stable, descending.
RECURSIVE insert_by_score(_, _)
insert_by_score(sorted, x) ==
    IF sorted = <<>> THEN <<x>>
    ELSE IF Head(sorted).score >= x.score
         THEN <<Head(sorted)>> \o insert_by_score(Tail(sorted), x)
         ELSE <<x>> \o sorted

RECURSIVE sort_by_score_asc_then_reverse(_)
sort_by_score_asc_then_reverse(cands) ==
    IF cands = <<>> THEN <<>>
    ELSE LET rest == sort_by_score_asc_then_reverse(
                         SubSeq(cands, 1, Len(cands) - 1))
             x == cands[Len(cands)]
             k == Cardinality({i \in DOMAIN rest : rest[i].score > x.score})
         IN  SubSeq(rest, 1, k) \o <<x>> \o SubSeq(rest, k + 1, Len(rest))

RECURSIVE sort_by_score(_)
sort_by_score(cands) ==
    IF cands = <<>> THEN <<>>
    ELSE insert_by_score(sort_by_score(SubSeq(cands, 1, Len(cands) - 1)),
                         cands[Len(cands)])

\* The documents the conversation's links name, as the query returns them.
linked_documents(db, conversation_id) ==
    OrderById({d \in db.documents :
                  \E l \in db.links : /\ l.conversation_id = conversation_id
                                      /\ l.document_id = d.id})

\* The scored candidates after the sort and the [:top_k] slice.
ranked_chunks(db, conversation_id, user_query, top_k) ==
    LET ranked == sort_by_score(
                      collect_candidates(linked_documents(db, conversation_id),
                                         word_set(user_query), top_k))
    IN  SubSeq(ranked, 1, Min(top_k, Len(ranked)))

\* retrieve_relevant_chunks(db, conversation_id, user_query, top_k)
retrieve_relevant_chunks(db, conversation_id, user_query, top_k) ==
    IF ~\E c \in db.conversations : c.id = conversation_id /\ c.mode = "rag"
    THEN <<>>
    ELSE IF ~\E l \in db.links : l.conversation_id = conversation_id
    THEN <<>>
    ELSE LET ranked == ranked_chunks(db, conversation_id, user_query, top_k)
         IN  [i \in DOMAIN ranked |-> ranked[i].text]

ContextPreamble == <<"R", "e", "l", "e", "v", "a", "n", "t", " ", "c", "o", "n", "t",
                      "e", "x", "t", " ", "f", "r", "o", "m", " ", "d", "o", "c",
                      "u", "m", "e", "n", "t", "s", ":", "\n", "\n">>

\* f"[{i}] {chunk}\n\n"
context_item(i, chunk) ==
    <<"[">> \o int_to_str(i) \o <<"]", " ">> \o chunk \o <<"\n", "\n">>

\* "for i, chunk in enumerate(chunks, 1): context += ..."
RECURSIVE append_items(_, _, _)
append_items(context, chunks, i) ==
    IF chunks = <<>> THEN context
    ELSE append_items(context \o context_item(i, Head(chunks)),
                      Tail(chunks), i + 1)

construct_rag_context_from_zero(db, conversation_id, user_query) ==
    LET chunks == retrieve_relevant_chunks(db, conversation_id, user_query,
                                           DefaultTopK)
    IN  IF chunks = <<>> THEN <<>>
        ELSE append_items(ContextPreamble, chunks, 0)

\* construct_rag_context(db, conversation_id, user_query)
construct_rag_context(db, conversation_id, user_query) ==
    LET chunks == retrieve_relevant_chunks(db, conversation_id, user_query,
                                           DefaultTopK)
    IN  IF chunks = <<>> THEN <<>>
        ELSE append_items(ContextPreamble, chunks, 1)

-----------------------------------------------------------------------------
(* Harness of truncate_messages: every message list of up to MaxMsgs       *)
(* entries over TruncRoles x TruncContents, every budget 0..MaxBudget.     *)

MaxMsgs == 4
MaxBudget == 5

TruncRoles == {"system", "user", "assistant"}

\* Contents of estimated cost 0, 1 and 2.
TruncContents ==
    { <<"h", "i">>,
      <<"a", "b", "c", "d">>,
      <<"a", "b", "c", "d", "e", "f", "g", "h">> }

TruncEntries == [role : TruncRoles, content : TruncContents]

TruncInputs ==
    /\ t_messages \in SeqsUpTo(TruncEntries, MaxMsgs)
    /\ t_max_tokens \in 0..MaxBudget
    /\ t_result = <<>>
    /\ t_pc = "call"

TruncateCall ==
    /\ t_pc = "call"
    /\ t_result' = truncate_messages(t_messages, t_max_tokens)
    /\ t_pc' = "done"
    /\ UNCHANGED <<t_messages, t_max_tokens>>
    /\ UNCHANGED <<ragVars, sysVars>>

-----------------------------------------------------------------------------
(* Properties of truncate_messages.                                        *)

TruncTotal == SumSeq(message_tokens(t_messages))

TruncHasSystem == t_messages # <<>> /\ t_messages[1].role = "system"

\* Number of entries after the leading system entry (all of them without one).
TruncRest == IF TruncHasSystem THEN Len(t_messages) - 1 ELSE Len(t_messages)

\* Cost of the k newest entries on top of the system entry's cost (or of 0).
TruncSuffixCost(k) ==
    (IF TruncHasSystem THEN message_tokens(t_messages)[1] ELSE 0)
    + SumSeq(SubSeq(message_tokens(t_messages),
                    Len(t_messages) - k + 1, Len(t_messages)))

\* The longest suffix of the non-system entries that fits the budget; with
\* non-negative costs it is where a newest-first scan stops.
TruncLongestFit ==
    CHOOSE k \in 0..TruncRest :
        /\ \A j \in 1..k : TruncSuffixCost(j) <= t_max_tokens
        /\ k < TruncRest => TruncSuffixCost(k + 1) > t_max_tokens

\* The entries the stated contract keeps, in chronological order.
TruncExpected ==
    (IF TruncHasSystem THEN <<t_messages[1]>> ELSE <<>>)
    \o SubSeq(t_messages, Len(t_messages) - TruncLongestFit + 1, Len(t_messages))

\* C1: when the summed estimated cost is within the budget, truncate_messages
\* returns the input list unchanged (same entries, same order).
C1_IdentityWithinBudget ==
    (t_pc = "done" /\ TruncTotal <= t_max_tokens) => t_result = t_messages

C1_Witness ==
    /\ t_pc = "done"
    /\ Len(t_messages) >= 3
    /\ TruncTotal = t_max_tokens
    /\ t_result = t_messages

\* C2: when entries are dropped, the kept entries appear in their original
\* chronological order: the system entry first if kept, then the retained
\* recent entries oldest to newest.
C2_KeptInChronologicalOrder ==
    (t_pc = "done" /\ TruncTotal > t_max_tokens) =>
        \E idx \in SeqsUpTo(DOMAIN t_messages, Len(t_result)) :
            /\ Len(idx) = Len(t_result)
            /\ \A k \in 1..Len(idx) - 1 : idx[k] < idx[k + 1]
            /\ \A k \in 1..Len(idx) : t_result[k] = t_messages[idx[k]]
            /\ (TruncHasSystem /\ idx # <<>>) => idx[1] = 1

\* C3: over budget, the output holds the leading system entry (if present)
\* plus exactly the longest suffix of the other entries that fits the budget
\* on top of the system entry's cost (or of 0 without a system entry).
C3_KeepsLongestFittingSuffix ==
    (t_pc = "done" /\ TruncTotal > t_max_tokens) =>
        BagOf(t_result) = BagOf(TruncExpected)

\* C4: a leading system-role entry is never dropped, also when its own cost
\* already exceeds the budget.
C4_SystemEntryNeverDropped ==
    (t_pc = "done" /\ TruncHasSystem) =>
        /\ \E k \in DOMAIN t_result : t_result[k] = t_messages[1]
        /\ Cardinality({k \in DOMAIN t_result : t_result[k].role = "system"})
             >= 1

C4_Witness ==
    /\ t_pc = "done"
    /\ TruncHasSystem
    /\ message_tokens(t_messages)[1] > t_max_tokens
    /\ Len(t_messages) >= 2
    /\ t_result = <<t_messages[1]>>

-----------------------------------------------------------------------------
(* Harness of RAGService: conversation 1 (rag, open or missing) with any   *)
(* subset of three documents linked: document 1 with any sequence of up to *)
(* MaxChunks precomputed chunks, document 2 with fixed precomputed chunks, *)
(* document 3 with raw content only.                                       *)

MaxChunks == 2
MaxTopK == 3

ChunkTexts ==
    { <<"c", "a", "t", " ", "s", "a", "t">>, <<"D", "o", "g", " ", "c", "a", "t">>, <<"f", "i", "s", "h">>, <<"t", "h", "e", " ", "C", "A", "T", " ", "d", "o", "g">> }

Doc2Chunks == << [text |-> <<"d", "o", "g">>], [text |-> <<"c", "a", "t", " ", "d", "o", "g", " ", "f", "i", "s", "h">>] >>

RawContents ==
    { <<"a", " ", "c", "a", "t", ".", " ", "d", "o", "g", " ", "s", "a",
         "t", ".", " ", "c", "o", "n", "c", "a", "t", "e", "n", "a",
         "t", "e", " ", "i", "t", ".", " ", "c", "a", "t">>, <<"f", "i", "s", "h", ".", " ", "B", "i", "r", "d">> }

Queries == { <<"c", "a", "t">>, <<"C", "a", "t", " ", " ", "d", "o", "g">>, <<"b", "i", "r", "d">> }

RagConversations ==
    { {[id |-> 1, mode |-> "rag"]},
      {[id |-> 1, mode |-> "open"]},
      {[id |-> 2, mode |-> "rag"]} }

RagDocuments ==
    { { [id |-> 1, filename |-> "d1.txt", content |-> <<>>,
         chunks |-> [i \in DOMAIN cs |-> [text |-> cs[i]]]],
        [id |-> 2, filename |-> "d2.txt", content |-> <<>>,
         chunks |-> Doc2Chunks],
        [id |-> 3, filename |-> "d3.txt", content |-> raw, chunks |-> <<>>] }
      : cs \in SeqsUpTo(ChunkTexts, MaxChunks), raw \in RawContents }

\* Conversation 2 is always linked to document 2; conversation 1 to any subset.
RagLinks ==
    { {[conversation_id |-> 2, document_id |-> 2]}
      \cup {[conversation_id |-> 1, document_id |-> d] : d \in ds}
      : ds \in SUBSET {1, 2, 3} }

RagInputs ==
    /\ g_db \in [conversations : RagConversations, links : RagLinks,
                 documents : RagDocuments]
    /\ g_query \in Queries
    /\ g_top_k \in 0..MaxTopK
    /\ g_chunks = <<>>
    /\ g_context = <<>>
    /\ g_pc = "call"

RetrieveCall ==
    /\ g_pc = "call"
    /\ g_chunks' = retrieve_relevant_chunks(g_db, 1, g_query, g_top_k)
    /\ g_pc' = "retrieved"
    /\ UNCHANGED <<g_db, g_query, g_top_k, g_context>>
    /\ UNCHANGED <<truncVars, sysVars>>

ConstructCall ==
    /\ g_pc = "retrieved"
    /\ g_context' = construct_rag_context(g_db, 1, g_query)
    /\ g_pc' = "done"
    /\ UNCHANGED <<g_db, g_query, g_top_k, g_chunks>>
    /\ UNCHANGED <<truncVars, sysVars>>

\* Fixed values of a harness that a specification does not exercise.
TruncIdle ==
    /\ t_messages = <<>>
    /\ t_max_tokens = 0
    /\ t_result = <<>>
    /\ t_pc = "idle"

RagIdle ==
    /\ g_db = [conversations |-> {}, links |-> {}, documents |-> {}]
    /\ g_query = <<>>
    /\ g_top_k = 0
    /\ g_chunks = <<>>
    /\ g_context = <<>>
    /\ g_pc = "idle"

-----------------------------------------------------------------------------
(* Properties of the retrieval scorer and the context assembler.           *)

RagLinked == linked_documents(g_db, 1)

RagIsRag == \E c \in g_db.conversations : c.id = 1 /\ c.mode = "rag"

\* The document a returned candidate was taken from (filenames are distinct).
RagSourceDoc(filename) == CHOOSE d \in g_db.documents : d.filename = filename

RagRanked == ranked_chunks(g_db, 1, g_query, g_top_k)

RagCandidates == collect_candidates(RagLinked, word_set(g_query), g_top_k)

RagShares(text) ==
    Range(split(lower(text))) \cap Range(split(lower(g_query))) # {}

\* C5: no precomputed chunk without a word in common with the query is ever
\* returned; when no precomputed chunk of the linked documents shares a word
\* with the query (and no document is read through its raw content), the
\* result is empty, also when that leaves fewer than top_k chunks.
C5_NoZeroScoreChunkReturned ==
    g_pc # "call" =>
        LET ranked == RagRanked
            linked == RagLinked
        IN  /\ \A i \in DOMAIN g_chunks :
                   RagSourceDoc(ranked[i].source).chunks # <<>>
                       => RagShares(g_chunks[i])
            /\ ( /\ \A k \in DOMAIN linked :
                        \/ linked[k].chunks # <<>>
                        \/ linked[k].content = <<>>
                 /\ \A k \in DOMAIN linked :
                        \A j \in DOMAIN linked[k].chunks :
                            ~RagShares(linked[k].chunks[j].text) )
               => g_chunks = <<>>

\* Fewer than top_k chunks come back although a linked document holds a
\* precomputed chunk that shares no word with the query.
C5_Witness ==
    /\ g_pc = "retrieved"
    /\ g_chunks # <<>>
    /\ Len(g_chunks) < g_top_k
    /\ \E k \in DOMAIN RagLinked :
           \E j \in DOMAIN RagLinked[k].chunks :
               ~RagShares(RagLinked[k].chunks[j].text)

RagWithScore(recs, s) == SelectSeq(recs, LAMBDA r : r.score = s)

RagTexts(recs) == [i \in DOMAIN recs |-> recs[i].text]

IsPrefix(p, q) == Len(p) <= Len(q) /\ SubSeq(q, 1, Len(p)) = p

\* C6: at most top_k texts come back, in descending score order, and among
\* candidates of equal score in the order in which they were collected.
C6_TopKDescendingStable ==
    (g_pc # "call" /\ g_chunks # <<>>) =>
        LET ranked == RagRanked
            cands == RagCandidates
        IN  /\ Len(g_chunks) <= g_top_k
            /\ Len(ranked) = Len(g_chunks)
            /\ \A i \in DOMAIN g_chunks : g_chunks[i] = ranked[i].text
            /\ \A i, j \in DOMAIN g_chunks :
                   i < j => ranked[i].score >= ranked[j].score
            /\ \A s \in {ranked[i].score : i \in DOMAIN ranked} :
                   IsPrefix(RagTexts(RagWithScore(ranked, s)),
                            RagTexts(RagWithScore(cands, s)))

\* More candidates than top_k, two scores, and a tie between different texts.
C6_Witness ==
    /\ g_pc = "retrieved"
    /\ Len(g_chunks) = g_top_k
    /\ Len(RagCandidates) > g_top_k
    /\ \E i, j \in DOMAIN g_chunks :
           /\ i < j
           /\ RagRanked[i].score = RagRanked[j].score
           /\ g_chunks[i] # g_chunks[j]
    /\ \E i, j \in DOMAIN g_chunks : RagRanked[i].score > RagRanked[j].score

RagDefaultChunks == retrieve_relevant_chunks(g_db, 1, g_query, DefaultTopK)

\* The text the contract asks for: the preamble, then item i of N as
\* "[i] chunk" followed by a blank line.
RagExpectedContext ==
    ContextPreamble
    \o Flatten([i \in DOMAIN RagDefaultChunks |->
                   <<"[">> \o <<DigitChars[i + 1]>> \o <<"]", " ">>
                   \o RagDefaultChunks[i] \o <<"\n", "\n">>])

CountChar(text, c) == Cardinality({i \in DOMAIN text : text[i] = c})

\* C7: no retrieved chunk gives the empty string; N retrieved chunks give the
\* preamble followed by exactly N bracketed items numbered 1..N, in the
\* order the scorer supplied them.
C7_ContextItems ==
    g_pc = "done" =>
        LET chunks == RagDefaultChunks
        IN  /\ chunks = <<>> => g_context = <<>>
            /\ chunks # <<>> =>
                   /\ g_context = RagExpectedContext
                   /\ CountChar(g_context, "[") = Len(chunks)
                   /\ CountChar(g_context, "]") = Len(chunks)

C7_Witness ==
    /\ g_pc = "done"
    /\ Len(RagDefaultChunks) = 3
    /\ RagDefaultChunks[1] # RagDefaultChunks[2]
    /\ g_context = RagExpectedContext

C7_WitnessEmpty ==
    /\ g_pc = "done"
    /\ RagIsRag
    /\ RagLinked # <<>>
    /\ g_context = <<>>

\* The first n period-delimited sentences of content that contain a query
\* word, stripped, in document order.
RECURSIVE FirstMatchingSentences(_, _, _)
FirstMatchingSentences(sentences, query_words, n) ==
    IF sentences = <<>> \/ n = 0 THEN <<>>
    ELSE IF \E word \in query_words : contains(word, lower(Head(sentences)))
    THEN <<strip(Head(sentences))>>
         \o FirstMatchingSentences(Tail(sentences), query_words, n - 1)
    ELSE FirstMatchingSentences(Tail(sentences), query_words, n)

\* C19: a linked document without precomputed chunks and with raw content
\* contributes as candidates the first top_k of its period-delimited
\* sentences that contain a query word (so at most top_k, in document order),
\* whatever the other documents are.
C19_FirstTopKMatchingSentences ==
    g_pc # "call" =>
        LET linked == RagLinked
            query_words == word_set(g_query)
        IN  \A k \in DOMAIN linked :
                (linked[k].chunks = <<>> /\ linked[k].content # <<>>) =>
                    RagTexts(doc_candidates(linked[k], query_words, g_top_k))
                        = FirstMatchingSentences(
                              split_on(linked[k].content, "."), query_words,
                              g_top_k)

-----------------------------------------------------------------------------
(* The conversation service and its routes.  Each worker is a server       *)
(* process that handles one request at a time (the routes are coroutines   *)
(* that never await) with its own Session; rows a Session added become     *)
(* visible to the other workers at its commit, and one Session at a time   *)
(* writes to the store.                                                    *)

Workers == {"w1", "w2"}

\* Requests received in a run, and the last value of the store's clock.
MaxRequests == 3
MaxClock == 1

None == "None"

\* self.default_model
default_model == "llama-3.1-8b-instant"

\* A Session with nothing pending: no row flushed (conversations, links,
\* messages), no object added and not flushed, and no primary key of a row
\* loaded for a cascading delete.
NoSession ==
    [conversations |-> {}, links |-> {}, messages |-> {}, added |-> <<>>,
     cascade_messages |-> {}, cascade_links |-> {}]

NoRequest ==
    [op |-> "none", conversation_id |-> 0, text |-> <<>>, mode |-> "open",
     has_document_ids |-> FALSE, document_ids |-> <<>>]

NoGen ==
    [history |-> <<>>, system_prompt |-> <<>>, chat_messages |-> <<>>,
     failed |-> FALSE, error |-> <<>>]

NoResponse == [status |-> 0, conversation_id |-> 0, messages |-> <<>>]

\* What a worker's Session reads: the committed rows and its own flushed rows.
session_view(w) ==
    [conversations |-> conversations \cup session[w].conversations,
     links |-> document_links \cup session[w].links,
     documents |-> documents,
     messages |-> messages \cup session[w].messages]

\* func.now(): the clock may have advanced since it was last read.
Now == {t \in {clock, clock + 1} : t <= MaxClock}

\* ORDER BY created_at: every order of the rows that is sorted by created_at
\* (rows with equal created_at come in an order the store chooses).
RECURSIVE order_by_created_at(_)
order_by_created_at(rows) ==
    IF rows = {} THEN {<<>>}
    ELSE UNION { {<<m>> \o rest : rest \in order_by_created_at(rows \ {m})}
                 : m \in {x \in rows :
                            \A y \in rows : x.created_at <= y.created_at} }

\* The classes an exception is an instance of.
ExceptionBases ==
    [HTTPException |-> {"HTTPException", "Exception"},
     ValueError |-> {"ValueError", "Exception"},
     Exception |-> {"Exception"}]

isinstance(exc, cls) == cls \in ExceptionBases[exc.type]

\* The except clauses of the POST /conversations handler.
create_conversation_except(exc) ==
    IF isinstance(exc, "ValueError") THEN 400
    ELSE IF isinstance(exc, "Exception") THEN 500
    ELSE exc.status_code

update_conversation_except_as_create(exc) ==
    IF isinstance(exc, "ValueError") THEN 400
    ELSE IF isinstance(exc, "Exception") THEN 500
    ELSE exc.status_code

\* The except clauses of the PUT /conversations/{id} handler.
update_conversation_except(exc) ==
    IF isinstance(exc, "ValueError") THEN 404
    ELSE IF isinstance(exc, "Exception") THEN 500
    ELSE exc.status_code

\* "Validate RAG mode": the exception the handler raises, if any.
rag_validation_fails(data) ==
    data.mode = "rag" /\ (~data.has_document_ids \/ Len(data.document_ids) = 0)

\* title = first_message[:50] + "..." if len(first_message) > 50 else first_message
title_of(first_message) ==
    IF Len(first_message) > 50
    THEN SubSeq(first_message, 1, 50) \o <<".", ".", ".">>
    ELSE first_message

\* The "for doc_id in data.document_ids" loop: a link per id of an existing
\* document, with primary keys from first_id on.
RECURSIVE new_links(_, _, _)
new_links(conversation_id, document_ids, first_id) ==
    IF document_ids = <<>> THEN {}
    ELSE IF \E d \in documents : d.id = Head(document_ids)
    THEN {[id |-> first_id, conversation_id |-> conversation_id,
           document_id |-> Head(document_ids)]}
         \cup new_links(conversation_id, Tail(document_ids), first_id + 1)
    ELSE new_links(conversation_id, Tail(document_ids), first_id)

\* id = Column(Integer, primary_key = True) in the default SQLite store: a new
\* row gets one more than the largest key in use in its table, so the key of
\* a deleted last row is given out again.
next_key(rows) ==
    IF rows = {} THEN 1
    ELSE 1 + (CHOOSE k \in {r.id : r \in rows} :
                  \A r \in rows : r.id <= k)

\* Message(conversation_id, role = "user", content): tokens_used defaults to
\* 0 and model_used to NULL at the INSERT.
user_message(id, conversation_id, content, now) ==
    [id |-> id, conversation_id |-> conversation_id, role |-> "user",
     content |-> content, tokens_used |-> 0, model_used |-> None,
     created_at |-> now]

SystemInstruction ==
    <<"Y", "o", "u", " ", "a", "r", "e", " ", "a", " ", "h", "e", "l",
       "p", "f", "u", "l", " ", "a", "s", "s", "i", "s", "t", "a",
       "n", "t", " ", "t", "h", "a", "t", " ", "a", "n", "s", "w",
       "e", "r", "s", " ", "q", "u", "e", "s", "t", "i", "o", "n",
       "s", " ", "b", "a", "s", "e", "d", " ", "o", "n", " ", "t",
       "h", "e", " ", "p", "r", "o", "v", "i", "d", "e", "d", " ",
       "c", "o", "n", "t", "e", "x", "t", ".", " ", "U", "s", "e",
       " ", "o", "n", "l", "y", " ", "t", "h", "e", " ", "i", "n",
       "f", "o", "r", "m", "a", "t", "i", "o", "n", " ", "f", "r",
       "o", "m", " ", "t", "h", "e", " ", "c", "o", "n", "t", "e",
       "x", "t", " ", "t", "o", " ", "a", "n", "s", "w", "e", "r",
       ".", " ", "I", "f", " ", "t", "h", "e", " ", "c", "o", "n",
       "t", "e", "x", "t", " ", "d", "o", "e", "s", "n", "'", "t",
       " ", "c", "o", "n", "t", "a", "i", "n", " ", "t", "h", "e",
       " ", "a", "n", "s", "w", "e", "r", ",", " ", "s", "a", "y",
       " ", "s", "o", ".", "\n", "\n">>

system_prompt_without_context_test(db, conversation_id, user_text, mode) ==
    IF mode = "rag"
    THEN SystemInstruction
         \o construct_rag_context(db, conversation_id, user_text)
    ELSE <<>>

\* _generate_response, "RAG mode: add retrieved context"
system_prompt_for(db, conversation_id, user_text, mode) ==
    IF mode = "rag"
    THEN LET context == construct_rag_context(db, conversation_id, user_text)
         IN  IF context # <<>> THEN SystemInstruction \o context ELSE <<>>
    ELSE <<>>

\* max_context = self.llm_service.max_context_tokens - self.llm_service.max_tokens
max_context == max_context_tokens - max_tokens

\* _generate_response up to the model call: the loaded history projected to
\* role/content pairs, the new user entry appended, the whole truncated.
message_history(loaded, user_text) ==
    truncate_messages(
        [i \in DOMAIN loaded |->
            [role |-> loaded[i].role, content |-> loaded[i].content]]
        \o <<[role |-> "user", content |-> user_text]>>,
        max_context)

\* generate_response, "Prepare messages"
chat_messages_of(history, system_prompt) ==
    (IF system_prompt # <<>>
     THEN <<[role |-> "system", content |-> system_prompt]>>
     ELSE <<>>) \o history

\* What the provider does with a call: an answer, or an error.
LLMOutcomes ==
    { [ok |-> TRUE, content |-> <<"H", "i", "!">>, total_tokens |-> 50, error |-> <<>>],
      [ok |-> FALSE, content |-> <<>>, total_tokens |-> 0,
       error |-> <<"t", "i", "m", "e", "o", "u", "t">>] }

provider_calls_with_retry(outcome) == IF outcome.ok THEN 1 ELSE 2

\* generate_response's try block: self.client.chat.completions.create is
\* called once, and its error is raised on without another attempt.
provider_calls(outcome) == 1

\* generate_response's "raise Exception(f'LLM API error: {str(e)}')"
llm_api_error(error) == <<"L", "L", "M", " ", "A", "P", "I", " ", "e", "r", "r", "o", "r",
                           ":", " ">> \o error

fallback_response_without_error(error_text) ==
    [content |-> <<"I", " ", "a", "p", "o", "l", "o", "g", "i", "z", "e", ",", " ",
                    "b", "u", "t", " ", "I", " ", "e", "n", "c", "o", "u", "n",
                    "t", "e", "r", "e", "d", " ", "a", "n", " ", "e", "r", "r",
                    "o", "r", ":", " ">>,
     tokens_used |-> 0, model_used |-> None]

\* _generate_response, "Fallback response on error"
fallback_response(error_text) ==
    [content |-> <<"I", " ", "a", "p", "o", "l", "o", "g", "i", "z", "e", ",", " ",
                    "b", "u", "t", " ", "I", " ", "e", "n", "c", "o", "u", "n",
                    "t", "e", "r", "e", "d", " ", "a", "n", " ", "e", "r", "r",
                    "o", "r", ":", " ">> \o error_text,
     tokens_used |-> 0, model_used |-> None]

\* generate_response's return value on success
llm_response(outcome) ==
    [content |-> outcome.content, tokens_used |-> outcome.total_tokens,
     model_used |-> default_model]

\* _generate_response, "Save assistant message": added to the Session, not
\* flushed, so it has no primary key and no created_at yet.
assistant_message(conversation_id, response) ==
    [conversation_id |-> conversation_id, role |-> "assistant",
     content |-> response.content, tokens_used |-> response.tokens_used,
     model_used |-> response.model_used]

\* The flush of the rows a Session added: primary keys in the order added.
flushed(added, first_id, now) ==
    {[id |-> first_id + i - 1, conversation_id |-> added[i].conversation_id,
      role |-> added[i].role, content |-> added[i].content,
      tokens_used |-> added[i].tokens_used,
      model_used |-> added[i].model_used, created_at |-> now]
     : i \in DOMAIN added}

-----------------------------------------------------------------------------
(* The inputs of the requests.                                             *)

UserTexts == { <<"c", "a", "t">>, <<"h", "e", "l", "l", "o">> }

\* Bodies of POST /conversations: mode, first_message, document_ids
\* (absent, empty, of existing documents, of a document that does not exist).
CreateInputs ==
    { [mode |-> "open", text |-> <<"h", "e", "l", "l", "o">>, has_document_ids |-> FALSE,
       document_ids |-> <<>>],
      [mode |-> "rag", text |-> <<"c", "a", "t">>, has_document_ids |-> FALSE,
       document_ids |-> <<>>],
      [mode |-> "rag", text |-> <<"h", "e", "l", "l", "o">>, has_document_ids |-> TRUE,
       document_ids |-> <<>>],
      [mode |-> "rag", text |-> <<"c", "a", "t">>, has_document_ids |-> TRUE,
       document_ids |-> <<1, 2>>],
      [mode |-> "rag", text |-> <<"h", "e", "l", "l", "o">>, has_document_ids |-> TRUE,
       document_ids |-> <<7>>] }

\* Conversation ids a request may name.
ConversationIds == {1, 2}

StoredDocuments ==
    { [id |-> 1, filename |-> "d1.txt", content |-> <<>>,
       chunks |-> << [text |-> <<"c", "a", "t", " ", "s", "a", "t">>], [text |-> <<"d", "o", "g">>] >>],
      [id |-> 2, filename |-> "d2.txt", content |-> <<"a", " ", "c", "a", "t", ".", " ", "d", "o", "g">>,
       chunks |-> <<>>] }

SysInit ==
    /\ users = {}
    /\ conversations = {}
    /\ messages = {}
    /\ document_links = {}
    /\ documents = StoredDocuments
    /\ next_id = [conversations |-> 1, messages |-> 1, links |-> 1]
    /\ clock = 0
    /\ pc = [w \in Workers |-> "idle"]
    /\ req = [w \in Workers |-> NoRequest]
    /\ session = [w \in Workers |-> NoSession]
    /\ gen = [w \in Workers |-> NoGen]
    /\ resp = [w \in Workers |-> NoResponse]
    /\ llm_calls = [w \in Workers |-> 0]
    /\ started = 0
    /\ deleted = {}

SysIdle ==
    /\ users = {}
    /\ conversations = {}
    /\ messages = {}
    /\ document_links = {}
    /\ documents = {}
    /\ next_id = [conversations |-> 1, messages |-> 1, links |-> 1]
    /\ clock = 0
    /\ pc = [w \in Workers |-> "off"]
    /\ req = [w \in Workers |-> NoRequest]
    /\ session = [w \in Workers |-> NoSession]
    /\ gen = [w \in Workers |-> NoGen]
    /\ resp = [w \in Workers |-> NoResponse]
    /\ llm_calls = [w \in Workers |-> 0]
    /\ started = 0
    /\ deleted = {}

-----------------------------------------------------------------------------
\* The store of a server started on a database file an earlier run left
\* behind: one open conversation with its first exchange.
StoredStore ==
    /\ users = {[id |-> 1, username |-> "default"]}
    /\ conversations =
           {[id |-> 1, user_id |-> 1, mode |-> "open",
             title |-> title_of(<<"h", "e", "l", "l", "o">>)]}
    /\ messages =
           {user_message(1, 1, <<"h", "e", "l", "l", "o">>, 0),
            [id |-> 2, conversation_id |-> 1, role |-> "assistant",
             content |-> <<"H", "i", "!">>, tokens_used |-> 50,
             model_used |-> default_model, created_at |-> 0]}
    /\ document_links = {}
    /\ documents = StoredDocuments
    /\ next_id = [conversations |-> 2, messages |-> 3, links |-> 1]
    /\ clock = MaxClock
    /\ pc = [w \in Workers |-> "idle"]
    /\ req = [w \in Workers |-> NoRequest]
    /\ session = [w \in Workers |-> NoSession]
    /\ gen = [w \in Workers |-> NoGen]
    /\ resp = [w \in Workers |-> NoResponse]
    /\ llm_calls = [w \in Workers |-> 0]
    /\ started = 0
    /\ deleted = {}

-----------------------------------------------------------------------------
(* The generation pipeline on a conversation whose stored messages are      *)
(* long enough to come near the truncation budget.                          *)

\* A text of the given cost in tokens.
LongText(tokens) == [i \in 1..(4 * tokens) |-> "x"]

\* Costs of the stored assistant reply, around the budget
\* max_context less the cost of a system prompt.
ReplyCosts ==
    {max_context - d : d \in {200, 100, 60, 20, 0}} \cup {max_context + 1}

\* A rag conversation linked to both stored documents, with a first exchange
\* whose reply is long, and one request still to come.
LongStore ==
    /\ users = {[id |-> 1, username |-> "default"]}
    /\ conversations =
           {[id |-> 1, user_id |-> 1, mode |-> "rag",
             title |-> title_of(<<"h", "e", "l", "l", "o">>)]}
    /\ \E cost \in ReplyCosts :
           messages =
               {user_message(1, 1, <<"h", "e", "l", "l", "o">>, 0),
                [id |-> 2, conversation_id |-> 1, role |-> "assistant",
                 content |-> LongText(cost), tokens_used |-> cost,
                 model_used |-> default_model, created_at |-> 0]}
    /\ document_links =
           {[id |-> 1, conversation_id |-> 1, document_id |-> 1],
            [id |-> 2, conversation_id |-> 1, document_id |-> 2]}
    /\ documents = StoredDocuments
    /\ next_id = [conversations |-> 2, messages |-> 3, links |-> 3]
    /\ clock = MaxClock
    /\ pc = [w \in Workers |-> "idle"]
    /\ req = [w \in Workers |-> NoRequest]
    /\ session = [w \in Workers |-> NoSession]
    /\ gen = [w \in Workers |-> NoGen]
    /\ resp = [w \in Workers |-> NoResponse]
    /\ llm_calls = [w \in Workers |-> 0]
    /\ started = MaxRequests - 1
    /\ deleted = {}

(* The request handlers, one action per step between two accesses to the   *)
(* store or the model provider.                                            *)

Free(w) == pc[w] \in {"idle", "done", "failed"}

\* The default store is one SQLite file (database.py, database_url): the
\* Session that flushed a row holds the file's write lock until it commits or
\* is closed, and the INSERT or DELETE of another Session waits for it.
database_is_locked ==
    \E v \in Workers : pc[v] \in {"generate", "llm", "commit"}

\* A request is received by the first free worker.
Accepts(w) ==
    /\ Free(w)
    /\ w = "w2" => ~Free("w1")
    /\ started < MaxRequests

\* POST /conversations up to _generate_response.  The handler commits the
\* default user (get_or_create_user), then validates RAG mode: the
\* HTTPException it raises is raised inside its own try block.  Otherwise
\* ConversationService.create_conversation adds and flushes the
\* conversation, then the links and the user message.  A request that has to
\* write while another Session holds the write lock waits for it, which is
\* this action taken later, or gives up with "database is locked", which the
\* handler's "except Exception" answers.
PostConversations(w) ==
    /\ Accepts(w)
    /\ started' = started + 1
    /\ llm_calls' = [llm_calls EXCEPT ![w] = 0]
    /\ gen' = gen
    /\ \E data \in CreateInputs :
           LET request(cid) ==
                   [op |-> "create", conversation_id |-> cid,
                    text |-> data.text, mode |-> data.mode,
                    has_document_ids |-> data.has_document_ids,
                    document_ids |-> data.document_ids]
               has_user == \E u \in users : u.username = "default"
           IN  IF database_is_locked
                  /\ (~has_user \/ ~rag_validation_fails(data))
               THEN /\ req' = [req EXCEPT ![w] = request(0)]
                    /\ resp' = [resp EXCEPT ![w] =
                           [status |-> create_conversation_except(
                                           [type |-> "Exception"]),
                            conversation_id |-> 0, messages |-> <<>>]]
                    /\ pc' = [pc EXCEPT ![w] = "failed"]
                    /\ UNCHANGED <<users, session, next_id, clock>>
               ELSE IF rag_validation_fails(data)
               THEN /\ users' = IF has_user THEN users
                                ELSE users
                                     \cup {[id |-> 1, username |-> "default"]}
                    /\ req' = [req EXCEPT ![w] = request(0)]
                    /\ resp' = [resp EXCEPT ![w] =
                           [status |-> create_conversation_except(
                                           [type |-> "HTTPException",
                                            status_code |-> 400]),
                            conversation_id |-> 0, messages |-> <<>>]]
                    /\ pc' = [pc EXCEPT ![w] = "done"]
                    /\ UNCHANGED <<session, next_id, clock>>
               ELSE \E now \in Now :
                        LET cid == next_id.conversations
                            links ==
                                IF data.mode = "rag"
                                   /\ data.document_ids # <<>>
                                THEN new_links(cid, data.document_ids,
                                               next_id.links)
                                ELSE {}
                        IN  /\ users' =
                                   IF has_user THEN users
                                   ELSE users \cup {[id |-> 1,
                                                     username |-> "default"]}
                            /\ req' = [req EXCEPT ![w] = request(cid)]
                            /\ session' = [session EXCEPT ![w] =
                                   [NoSession EXCEPT
                                       !.conversations =
                                           {[id |-> cid, user_id |-> 1,
                                             mode |-> data.mode,
                                             title |-> title_of(data.text)]},
                                       !.links = links,
                                       !.messages =
                                           {user_message(next_id.messages,
                                                cid, data.text, now)}]]
                            /\ next_id' =
                                   [conversations |-> cid + 1,
                                    messages |-> next_id.messages + 1,
                                    links |->
                                        next_id.links + Cardinality(links)]
                            /\ clock' = now
                            /\ resp' = [resp EXCEPT ![w] = NoResponse]
                            /\ pc' = [pc EXCEPT ![w] = "generate"]
    /\ UNCHANGED <<conversations, messages, document_links, documents>>
    /\ UNCHANGED <<truncVars, ragVars, deleted>>

\* PUT /conversations/{id} with ConversationService.add_message up to its
\* existence check: ValueError for an unknown id, else the handler goes on
\* with the conversation it loaded.
PutConversation(w) ==
    /\ Accepts(w)
    /\ started' = started + 1
    /\ llm_calls' = [llm_calls EXCEPT ![w] = 0]
    /\ \E cid \in ConversationIds, content \in UserTexts :
           IF \E c \in conversations : c.id = cid
           THEN LET c == CHOOSE c \in conversations : c.id = cid
                IN  /\ req' = [req EXCEPT ![w] =
                           [op |-> "add", conversation_id |-> cid,
                            text |-> content, mode |-> c.mode,
                            has_document_ids |-> FALSE,
                            document_ids |-> <<>>]]
                    /\ resp' = [resp EXCEPT ![w] = NoResponse]
                    /\ pc' = [pc EXCEPT ![w] = "save"]
           ELSE /\ req' = [req EXCEPT ![w] =
                       [op |-> "add", conversation_id |-> cid,
                        text |-> content, mode |-> "open",
                        has_document_ids |-> FALSE, document_ids |-> <<>>]]
                /\ resp' = [resp EXCEPT ![w] =
                       [status |-> update_conversation_except(
                                       [type |-> "ValueError"]),
                        conversation_id |-> cid, messages |-> <<>>]]
                /\ pc' = [pc EXCEPT ![w] = "done"]
    /\ UNCHANGED <<storeVars, session, gen>>
    /\ UNCHANGED <<truncVars, ragVars, deleted>>

\* add_message, "Create user message": the message is added and flushed.
\* The INSERT takes the store's write lock, which the Session keeps until
\* its commit or its close; nothing asks again whether the conversation is
\* still there, and the store does not check the foreign key.
SaveUserMessage(w) ==
    /\ pc[w] = "save"
    /\ ~database_is_locked
    /\ \E now \in Now :
           /\ session' = [session EXCEPT ![w].messages =
                  {user_message(next_id.messages, req[w].conversation_id,
                                req[w].text, now)}]
           /\ clock' = now
    /\ next_id' = [next_id EXCEPT !.messages = next_id.messages + 1]
    /\ pc' = [pc EXCEPT ![w] = "generate"]
    /\ UNCHANGED <<users, conversations, messages, document_links, documents>>
    /\ UNCHANGED <<req, gen, resp, llm_calls, started>>
    /\ UNCHANGED <<truncVars, ragVars, deleted>>

\* _generate_response up to the model call: the history is loaded in
\* created_at order, the RAG context is built, the user entry is appended
\* and the list is truncated.
GenerateResponse(w) ==
    /\ pc[w] = "generate"
    /\ LET view == session_view(w)
           cid == req[w].conversation_id
       IN  \E loaded \in order_by_created_at(
                   {m \in view.messages : m.conversation_id = cid}) :
               gen' = [gen EXCEPT ![w] =
                   [history |-> message_history(loaded, req[w].text),
                    system_prompt |->
                        system_prompt_for(view, cid, req[w].text, req[w].mode),
                    chat_messages |-> <<>>,
                    failed |-> FALSE,
                    error |-> <<>>]]
    /\ pc' = [pc EXCEPT ![w] = "llm"]
    /\ UNCHANGED <<storeVars, req, session, resp, llm_calls, started>>
    /\ UNCHANGED <<truncVars, ragVars, deleted>>

\* The model call of _generate_response and what follows it: the provider
\* answers or raises, a raise is turned into the fallback response, and the
\* assistant message is added to the Session.
CallModel(w) ==
    /\ pc[w] = "llm"
    /\ \E outcome \in LLMOutcomes :
           LET response ==
                   IF outcome.ok THEN llm_response(outcome)
                   ELSE fallback_response(llm_api_error(outcome.error))
           IN  /\ gen' = [gen EXCEPT
                      ![w].chat_messages =
                          chat_messages_of(gen[w].history,
                                           gen[w].system_prompt),
                      ![w].failed = ~outcome.ok,
                      ![w].error = outcome.error]
               /\ session' = [session EXCEPT ![w].added =
                      Append(@, assistant_message(req[w].conversation_id,
                                                  response))]
               /\ llm_calls' = [llm_calls EXCEPT
                                   ![w] = @ + provider_calls(outcome)]
    /\ pc' = [pc EXCEPT ![w] = "commit"]
    /\ UNCHANGED <<storeVars, req, resp, started>>
    /\ UNCHANGED <<truncVars, ragVars, deleted>>

\* db.commit() of create_conversation and add_message, the refresh and the
\* handler's response: 201 with the conversation's messages, or 200 with the
\* user message.
Commit(w) ==
    /\ pc[w] = "commit"
    /\ \E now \in Now :
           LET new == flushed(session[w].added, next_id.messages, now)
               cid == req[w].conversation_id
               stored == messages \cup session[w].messages \cup new
           IN  /\ messages' = stored
               /\ next_id' = [next_id EXCEPT !.messages =
                                 next_id.messages + Len(session[w].added)]
               /\ clock' = now
               /\ IF req[w].op = "create"
                  THEN \E ordered \in order_by_created_at(
                               {m \in stored : m.conversation_id = cid}) :
                           resp' = [resp EXCEPT ![w] =
                               [status |-> 201, conversation_id |-> cid,
                                messages |-> ordered]]
                  ELSE resp' = [resp EXCEPT ![w] =
                           [status |-> 200, conversation_id |-> cid,
                            messages |-> OrderById(session[w].messages)]]
    /\ conversations' = conversations \cup session[w].conversations
    /\ document_links' = document_links \cup session[w].links
    /\ session' = [session EXCEPT ![w] = NoSession]
    /\ gen' = [gen EXCEPT ![w] = NoGen]
    /\ pc' = [pc EXCEPT ![w] = "done"]
    /\ UNCHANGED <<users, documents, req, llm_calls, started>>
    /\ UNCHANGED <<truncVars, ragVars, deleted>>

close_committing(committed, added) == committed \cup added

\* get_db's "finally: db.close()": the rows a Session flushed and did not
\* commit are rolled back; the committed rows stay as they are.
close(committed, added) == committed

\* create_conversation or add_message raises between the flush of the user
\* message and the commit (a store error, a malformed stored chunk): the
\* handler's "except Exception" answers 500 and get_db closes the Session.
InternalError(w) ==
    /\ pc[w] \in {"generate", "llm", "commit"}
    /\ conversations' = close(conversations, session[w].conversations)
    /\ document_links' = close(document_links, session[w].links)
    /\ messages' = close(messages, session[w].messages)
    /\ session' = [session EXCEPT ![w] = NoSession]
    /\ next_id' =
           [conversations |->
                next_key(conversations'
                         \cup UNION {session'[v].conversations : v \in Workers}),
            messages |->
                next_key(messages'
                         \cup UNION {session'[v].messages : v \in Workers}),
            links |->
                next_key(document_links'
                         \cup UNION {session'[v].links : v \in Workers})]
    /\ gen' = [gen EXCEPT ![w] = NoGen]
    /\ resp' = [resp EXCEPT ![w] =
           [status |-> IF req[w].op = "create"
                       THEN create_conversation_except([type |-> "Exception"])
                       ELSE update_conversation_except([type |-> "Exception"]),
            conversation_id |-> req[w].conversation_id, messages |-> <<>>]]
    /\ pc' = [pc EXCEPT ![w] = "failed"]
    /\ UNCHANGED <<users, documents, clock, req, llm_calls, started>>
    /\ UNCHANGED <<truncVars, ragVars, deleted>>

\* The answer to an exception no handler catches (delete_conversation has
\* no except clause).
unhandled_exception == 500

\* The INSERT of add_message or the DELETE of delete_conversation has waited
\* for the write lock for as long as the driver waits and raises "database
\* is locked": update_conversation's "except Exception" answers 500, the
\* exception of delete_conversation is not caught; get_db closes the
\* Session, which has written nothing.
OperationalError(w) ==
    /\ pc[w] \in {"save", "delete"}
    /\ database_is_locked
    /\ session' = [session EXCEPT ![w] = NoSession]
    /\ resp' = [resp EXCEPT ![w] =
           [status |-> IF req[w].op = "delete" THEN unhandled_exception
                       ELSE update_conversation_except([type |-> "Exception"]),
            conversation_id |-> req[w].conversation_id, messages |-> <<>>]]
    /\ pc' = [pc EXCEPT ![w] = "failed"]
    /\ UNCHANGED <<storeVars, req, gen, llm_calls, started>>
    /\ UNCHANGED <<truncVars, ragVars, deleted>>

\* DELETE /conversations/{id} up to db.delete(conversation): 404 for an
\* unknown id, else the conversation's messages and links are loaded for the
\* cascade (cascade = "all, delete-orphan").
DeleteConversation(w) ==
    /\ Accepts(w)
    /\ started' = started + 1
    /\ llm_calls' = [llm_calls EXCEPT ![w] = 0]
    /\ \E cid \in ConversationIds :
           /\ req' = [req EXCEPT ![w] =
                  [NoRequest EXCEPT !.op = "delete", !.conversation_id = cid]]
           /\ IF \E c \in conversations : c.id = cid
              THEN /\ session' = [session EXCEPT ![w] =
                          [NoSession EXCEPT
                              !.cascade_messages =
                                  {m.id : m \in {x \in messages :
                                                   x.conversation_id = cid}},
                              !.cascade_links =
                                  {l.id : l \in {x \in document_links :
                                                   x.conversation_id = cid}}]]
                   /\ resp' = [resp EXCEPT ![w] = NoResponse]
                   /\ pc' = [pc EXCEPT ![w] = "delete"]
              ELSE /\ resp' = [resp EXCEPT ![w] =
                          [status |-> 404, conversation_id |-> cid,
                           messages |-> <<>>]]
                   /\ pc' = [pc EXCEPT ![w] = "done"]
                   /\ UNCHANGED session
    /\ UNCHANGED <<storeVars, gen>>
    /\ UNCHANGED <<truncVars, ragVars, deleted>>

\* db.commit() of delete_conversation: the flush deletes the loaded messages
\* and links by primary key, then the conversation, once the write lock is
\* free; a row that is gone by then is passed over.  The handler answers
\* 204.
CommitDelete(w) ==
    /\ pc[w] = "delete"
    /\ ~database_is_locked
    /\ LET cid == req[w].conversation_id
       IN  /\ conversations' = {c \in conversations : c.id # cid}
           /\ messages' =
                  {m \in messages : m.id \notin session[w].cascade_messages}
           /\ document_links' =
                  {l \in document_links :
                      l.id \notin session[w].cascade_links}
           /\ resp' = [resp EXCEPT ![w] =
                  [status |-> 204, conversation_id |-> cid,
                   messages |-> <<>>]]
           /\ deleted' = deleted \cup {cid}
    /\ session' = [session EXCEPT ![w] = NoSession]
    /\ next_id' =
           [conversations |->
                next_key(conversations'
                         \cup UNION {session'[v].conversations : v \in Workers}),
            messages |->
                next_key(messages'
                         \cup UNION {session'[v].messages : v \in Workers}),
            links |->
                next_key(document_links'
                         \cup UNION {session'[v].links : v \in Workers})]
    /\ pc' = [pc EXCEPT ![w] = "done"]
    /\ UNCHANGED <<users, documents, clock, req, gen, llm_calls, started>>
    /\ UNCHANGED <<truncVars, ragVars>>

\* GET /conversations/{id}: the conversation's messages in created_at order.
GetConversation(w) ==
    /\ Accepts(w)
    /\ started' = started + 1
    /\ llm_calls' = [llm_calls EXCEPT ![w] = 0]
    /\ gen' = gen
    /\ \E cid \in ConversationIds :
           /\ req' = [req EXCEPT ![w] =
                  [NoRequest EXCEPT !.op = "get", !.conversation_id = cid]]
           /\ IF \E c \in conversations : c.id = cid
              THEN \E ordered \in order_by_created_at(
                           {m \in messages : m.conversation_id = cid}) :
                       resp' = [resp EXCEPT ![w] =
                           [status |-> 200, conversation_id |-> cid,
                            messages |-> ordered]]
              ELSE resp' = [resp EXCEPT ![w] =
                       [status |-> 404, conversation_id |-> cid,
                        messages |-> <<>>]]
    /\ pc' = [pc EXCEPT ![w] = "done"]
    /\ UNCHANGED <<storeVars, session>>
    /\ UNCHANGED <<truncVars, ragVars, deleted>>

-----------------------------------------------------------------------------
(* Properties of the request handlers.                                     *)

\* The worker whose handler commits in this step.
Commits(w) == pc[w] = "commit" /\ pc'[w] = "done"

SuccessStatus(op) == IF op = "create" THEN 201 ELSE 200

\* C8: when the model call raises, the operation goes on and ends with its
\* success status (201 / 200), and the commit stores an assistant message
\* whose content embeds the error description, with tokens_used = 0 and
\* model_used = NULL.
C8_ModelFailureTolerated ==
    [][\A w \in Workers :
          /\ (pc[w] = "llm" /\ pc'[w] # "llm" /\ gen'[w].failed)
                 => pc'[w] = "commit"
          /\ (Commits(w) /\ gen[w].failed) =>
                 /\ resp'[w].status = SuccessStatus(req[w].op)
                 /\ \E m \in messages' \ messages :
                        /\ m.conversation_id = req[w].conversation_id
                        /\ m.role = "assistant"
                        /\ gen[w].error # <<>>
                        /\ contains(gen[w].error, m.content)
                        /\ m.tokens_used = 0
                        /\ m.model_used = None]_vars

\* An add_message whose model call failed has answered 200 and its fallback
\* message is stored.
C8_Witness ==
    \E w \in Workers :
        /\ pc[w] = "done"
        /\ req[w].op = "add"
        /\ resp[w].status = 200
        /\ llm_calls[w] = 1
        /\ \E m \in messages, o \in LLMOutcomes :
               /\ ~o.ok
               /\ m.conversation_id = req[w].conversation_id
               /\ m.id > resp[w].messages[1].id
               /\ m.role = "assistant"
               /\ contains(o.error, m.content)
               /\ m.tokens_used = 0
               /\ m.model_used = None

MessagesOf(rows, cid, role) ==
    {m \in rows : m.conversation_id = cid /\ m.role = role}

\* C9: the commit of a create_conversation leaves the new conversation with
\* exactly two messages, the user message with first_message and then one
\* assistant message; the commit of an add_message adds exactly one user
\* message (returned with role user and the submitted content) and one
\* assistant message; so every conversation always has as many user as
\* assistant messages.
C9_OneUserOneAssistantPerOperation ==
    /\ [](\A c \in conversations :
             Cardinality(MessagesOf(messages, c.id, "user"))
                 = Cardinality(MessagesOf(messages, c.id, "assistant")))
    /\ [][\A w \in Workers :
             Commits(w) =>
                 LET cid == req[w].conversation_id
                     new == messages' \ messages
                 IN  /\ Cardinality(new) = 2
                     /\ messages \subseteq messages'
                     /\ \E u \in MessagesOf(new, cid, "user") :
                        \E a \in MessagesOf(new, cid, "assistant") :
                            /\ u.content = req[w].text
                            /\ u.id < a.id
                            /\ req[w].op = "add" =>
                                   /\ resp'[w].status = 200
                                   /\ resp'[w].messages = <<u>>
                     /\ req[w].op = "create" =>
                            /\ resp'[w].status = 201
                            /\ {m \in messages' : m.conversation_id = cid}
                                   = new
                            /\ \E c \in conversations' \ conversations :
                                   c.id = cid]_vars

\* The worker that receives a POST /conversations with mode rag and no
\* document ids in this step.
ReceivesRagWithoutDocuments(w) ==
    /\ Accepts(w)
    /\ started' = started + 1
    /\ req'[w].op = "create"
    /\ rag_validation_fails(req'[w])

\* C10: POST /conversations with mode rag and document_ids empty or absent
\* is answered with 400, and the request persists no conversation, message
\* or document link.
C10_RagWithoutDocumentsIs400 ==
    [][\A w \in Workers :
          ReceivesRagWithoutDocuments(w) =>
              /\ resp'[w].status = 400
              /\ UNCHANGED <<conversations, messages, document_links>>
              /\ session'[w] = NoSession]_vars

-----------------------------------------------------------------------------
\* The worker that receives a PUT /conversations/{id} in this step for an id
\* no stored conversation has.
ReceivesAddToUnknown(w) ==
    /\ Accepts(w)
    /\ started' = started + 1
    /\ req'[w].op = "add"
    /\ ~\E c \in conversations : c.id = req'[w].conversation_id

\* C11: add_message on a conversation id that does not exist is answered
\* with 404, makes no model call (the handler is finished at once, with no
\* call counted and nothing left in its Session), and leaves the stored
\* messages of every conversation unchanged.
C11_AddToUnknownIs404 ==
    /\ [][\A w \in Workers :
             ReceivesAddToUnknown(w) =>
                 /\ resp'[w].status = 404
                 /\ pc'[w] = "done"
                 /\ llm_calls'[w] = 0
                 /\ session'[w] = NoSession
                 /\ messages' = messages]_vars
    /\ [](\A w \in Workers :
             (pc[w] = "done" /\ req[w].op = "add" /\ resp[w].status = 404)
                 => llm_calls[w] = 0)

\* An add_message on an unknown id was answered 404 while another
\* conversation has its messages stored.
C11_Witness ==
    \E w \in Workers :
        /\ pc[w] = "done"
        /\ req[w].op = "add"
        /\ resp[w].status = 404
        /\ llm_calls[w] = 0
        /\ ~\E c \in conversations : c.id = req[w].conversation_id
        /\ \E m \in messages : m.conversation_id # req[w].conversation_id

\* The worker that receives a request of kind op in this step.
Receives(w, op) ==
    /\ Accepts(w)
    /\ started' = started + 1
    /\ req'[w].op = op

\* The worker whose DELETE is answered 204 in this step.
Deletes(w) == pc[w] = "delete" /\ pc'[w] = "done"

\* DELETE of an existing conversation goes on to the delete, and when it is
\* answered the answer is 204 and the conversation, its messages and its
\* document links are gone while the rest of the store is as it was.
DeleteCascades ==
    \A w \in Workers :
        /\ (/\ Receives(w, "delete")
            /\ \E c \in conversations : c.id = req'[w].conversation_id)
           => pc'[w] = "delete"
        /\ Deletes(w) =>
               LET cid == req[w].conversation_id
               IN  /\ resp'[w].status = 204
                   /\ conversations' = {c \in conversations : c.id # cid}
                   /\ messages' = {m \in messages : m.conversation_id # cid}
                   /\ document_links' =
                          {l \in document_links : l.conversation_id # cid}
                   /\ documents' = documents

\* A GET or DELETE received for an id whose conversation was deleted
\* earlier is answered 404 at once, with no messages.
DeletedStays404 ==
    \A w \in Workers :
        (/\ Receives(w, "get") \/ Receives(w, "delete")
         /\ req'[w].conversation_id \in deleted)
        => /\ pc'[w] = "done"
           /\ resp'[w].status = 404
           /\ resp'[w].messages = <<>>

\* C12: deleting an existing conversation returns 204 and removes it with all
\* of its messages and document links, leaving every document untouched; any
\* later GET or DELETE of that id returns 404 and retrieves no message.
C12_DeleteCascadesAndStays404 ==
    [][DeleteCascades /\ DeletedStays404]_vars

\* The user messages among rows that have a reply among rows: an assistant
\* message of the same conversation created after them.
HasReply(u, rows) ==
    \E a \in rows :
        /\ a.role = "assistant"
        /\ a.conversation_id = u.conversation_id
        /\ a.id > u.id

\* The handler of w fails in this step, after it flushed its user message.
FailsInPipeline(w) ==
    /\ pc[w] \in {"generate", "llm", "commit"}
    /\ pc'[w] = "failed"

\* C13: the committed messages never hold a user message without its
\* assistant reply: every step that commits a user message commits an
\* assistant message of the same conversation with it, so the two counts of
\* each conversation are always equal; and when the pipeline fails between
\* the save of the user message and the commit, no message of the request is
\* committed.
C13_UserMessageNeverCommittedAlone ==
    /\ [](\A u \in messages :
             /\ u.role = "user" => HasReply(u, messages)
             /\ Cardinality(MessagesOf(messages, u.conversation_id, "user"))
                    = Cardinality(MessagesOf(messages, u.conversation_id,
                                             "assistant")))
    /\ [][/\ \A u \in messages' \ messages :
                 u.role = "user" => HasReply(u, messages' \ messages)
          /\ \A w \in Workers :
                 FailsInPipeline(w) =>
                     /\ session[w].messages # {}
                     /\ messages' = messages
                     /\ session'[w] = NoSession]_vars

\* An add_message failed after its model call: it was answered 500 and the
\* conversation still has the two messages of its first exchange only.
C13_Witness ==
    \E w \in Workers :
        /\ pc[w] = "failed"
        /\ req[w].op = "add"
        /\ resp[w].status = 500
        /\ llm_calls[w] = 1
        /\ Cardinality({m \in messages :
                           m.conversation_id = req[w].conversation_id}) = 2
        /\ ~\E m \in messages : m.content = req[w].text

\* A sequence of message rows in the order the rows were created: by
\* primary key.
InCreationOrder(rows) ==
    \A i, j \in DOMAIN rows : i < j => rows[i].id < rows[j].id

\* C14: the messages of a conversation are retrieved in the order in which
\* they were created, by GET /conversations/{id} and in the response of
\* POST /conversations as by the history load of _generate_response,
\* whatever the created_at values of successive writes are.
C14_RetrievedInCreationOrder ==
    /\ [](\A w \in Workers : InCreationOrder(resp[w].messages))
    /\ [][\A w \in Workers :
             (pc[w] = "generate" /\ pc'[w] = "llm") =>
                 gen'[w].history =
                     message_history(
                         OrderById({m \in session_view(w).messages :
                                      m.conversation_id
                                          = req[w].conversation_id}),
                         req[w].text)]_vars

\* The entries of a message list that are the user entry for text.
UserEntries(entries, text) ==
    {i \in DOMAIN entries :
        entries[i] = [role |-> "user", content |-> text]}

\* C15: the history _generate_response hands to the truncator and the model
\* holds the new user message exactly once, as its final entry: it has one
\* entry per message the conversation had before the request plus that one
\* (the budget is far from reached, so the truncator drops nothing), and the
\* model is sent the same list after the system prompt, if any.
C15_NewUserMessageOnce ==
    [][\A w \in Workers :
          /\ (pc[w] = "generate" /\ pc'[w] = "llm") =>
                 LET history == gen'[w].history
                     before == {m \in messages :
                                  m.conversation_id = req[w].conversation_id}
                 IN  /\ Len(history) = Cardinality(before) + 1
                     /\ history[Len(history)]
                            = [role |-> "user", content |-> req[w].text]
                     /\ Cardinality(UserEntries(history, req[w].text))
                            = 1 + Cardinality({m \in before :
                                                 /\ m.role = "user"
                                                 /\ m.content = req[w].text})
          /\ (pc[w] = "llm" /\ pc'[w] = "commit") =>
                 gen'[w].chat_messages
                     = chat_messages_of(gen[w].history, gen[w].system_prompt)
      ]_vars

\* C16: when there is a system prompt it is sent to the model as the first,
\* system-role entry, and its cost was counted by the truncator: the entries
\* sent to the model, system prompt included, cost at most
\* max_context_tokens - max_tokens whenever the system prompt alone does.
C16_SystemPromptCountedInBudget ==
    [][\A w \in Workers :
          (/\ pc[w] = "llm"
           /\ pc'[w] = "commit"
           /\ gen[w].system_prompt # <<>>
           /\ estimate_tokens(gen[w].system_prompt) <= max_context)
          => /\ gen'[w].chat_messages # <<>>
             /\ gen'[w].chat_messages[1]
                    = [role |-> "system", content |-> gen[w].system_prompt]
             /\ SumSeq(message_tokens(gen'[w].chat_messages)) <= max_context
      ]_vars

\* The entries of a list sent to the model that have the system role.
SystemEntries(entries) ==
    {i \in DOMAIN entries : entries[i].role = "system"}

\* C17: the model is called with a system prompt exactly when the
\* conversation's mode is rag and the retrieval for the new user text yields
\* at least one chunk; in open mode, or when the retrieval yields nothing,
\* the list sent to the model has no system entry.
C17_SystemPromptIffRagContext ==
    [][\A w \in Workers :
          /\ (pc[w] = "generate" /\ pc'[w] = "llm") =>
                 (gen'[w].system_prompt # <<>>
                  <=> /\ req[w].mode = "rag"
                      /\ retrieve_relevant_chunks(
                             session_view(w), req[w].conversation_id,
                             req[w].text, DefaultTopK) # <<>>)
          /\ (pc[w] = "llm" /\ pc'[w] = "commit") =>
                 LET sent == gen'[w].chat_messages
                 IN  IF gen[w].system_prompt # <<>>
                     THEN /\ SystemEntries(sent) = {1}
                          /\ sent[1].content = gen[w].system_prompt
                     ELSE SystemEntries(sent) = {}
      ]_vars

\* A model call was made in rag mode with a system prompt quoting a stored
\* chunk, after a rag conversation for which nothing is retrieved was
\* created and answered.
C17_Witness ==
    /\ \E w \in Workers :
           /\ pc[w] = "commit"
           /\ req[w].mode = "rag"
           /\ SystemEntries(gen[w].chat_messages) = {1}
           /\ contains(<<"c", "a", "t", " ", "s", "a", "t">>,
                       gen[w].chat_messages[1].content)
    /\ \E w \in Workers :
           /\ pc[w] = "done"
           /\ req[w].op = "create"
           /\ req[w].mode = "rag"
           /\ resp[w].status = 201
           /\ retrieve_relevant_chunks(
                  session_view(w), req[w].conversation_id, req[w].text,
                  DefaultTopK) = <<>>

\* C18: a create_conversation or add_message makes its one external model
\* call after its user message is saved and before its assistant message is
\* saved, never a second one (a failed call is not retried), and has made
\* exactly one when it commits; a rejected request makes none.  (A handler
\* that fails with an internal error ends without a commit, see C13.)
C18_ExactlyOneModelCall ==
    /\ [](\A w \in Workers :
             /\ llm_calls[w] <= 1
             /\ (pc[w] = "done" /\ resp[w].status \in {200, 201}
                 /\ req[w].op \in {"create", "add"}) => llm_calls[w] = 1
             /\ (pc[w] = "done" /\ resp[w].status \in {400, 404})
                    => llm_calls[w] = 0)
    /\ [][\A w \in Workers :
             /\ llm_calls'[w] > llm_calls[w] =>
                    /\ llm_calls'[w] = 1
                    /\ \E u \in session[w].messages :
                           /\ u.role = "user"
                           /\ u.content = req[w].text
                           /\ u.conversation_id = req[w].conversation_id
                    /\ session[w].added = <<>>
                    /\ Len(session'[w].added) = 1
                    /\ session'[w].added[1].role = "assistant"
                    /\ pc'[w] = "commit"
             /\ Commits(w) =>
                    /\ llm_calls[w] = 1
                    /\ llm_calls'[w] = 1
                    /\ Len(session[w].added) = 1]_vars

\* A create_conversation whose only model call failed was answered 201 and
\* its fallback reply is stored.
C18_Witness ==
    \E w \in Workers :
        /\ pc[w] = "done"
        /\ req[w].op = "create"
        /\ resp[w].status = 201
        /\ llm_calls[w] = 1
        /\ \E m \in messages :
               /\ m.conversation_id = req[w].conversation_id
               /\ m.role = "assistant"
               /\ m.model_used = None

\* C20: when a create_conversation with mode rag has committed, the new
\* conversation has at least one conversation-document link and each of its
\* links names a stored document.
C20_RagConversationHasLinks ==
    [][\A w \in Workers :
          (Commits(w) /\ req[w].op = "create" /\ req[w].mode = "rag") =>
              LET links == {l \in document_links' :
                              l.conversation_id = req[w].conversation_id}
              IN  /\ resp'[w].status = 201
                  /\ links # {}
                  /\ \A l \in links :
                         \E d \in documents' : d.id = l.document_id]_vars

\* C21: however a delete_conversation and an add_message on the same
\* conversation interleave (existence check, user-message save, model call,
\* assistant-message save, commit against the load and the commit of the
\* delete), every committed message belongs to a stored conversation.
C21_NoMessageOfMissingConversation ==
    \A m \in messages : \E c \in conversations : c.id = m.conversation_id

(* Specifications.                                                         *)

TruncInit == TruncInputs /\ RagIdle /\ SysIdle

TruncNext == TruncateCall

SpecTrunc == TruncInit /\ [][TruncNext]_vars

RagInit == RagInputs /\ TruncIdle /\ SysIdle

RagNext == RetrieveCall \/ ConstructCall

SpecRag == RagInit /\ [][RagNext]_vars

Init == SysInit /\ TruncIdle /\ RagIdle

Next ==
    \E w \in Workers :
        \/ PostConversations(w)
        \/ PutConversation(w)
        \/ SaveUserMessage(w)
        \/ GenerateResponse(w)
        \/ CallModel(w)
        \/ Commit(w)
        \/ InternalError(w)
        \/ DeleteConversation(w)
        \/ CommitDelete(w)
        \/ OperationalError(w)
        \/ GetConversation(w)

Spec == Init /\ [][Next]_vars

StoredInit == StoredStore /\ TruncIdle /\ RagIdle

SpecStored == StoredInit /\ [][Next]_vars

LongNext ==
    \E w \in Workers :
        \/ PutConversation(w)
        \/ SaveUserMessage(w)
        \/ GenerateResponse(w)
        \/ CallModel(w)
        \/ Commit(w)
        \/ InternalError(w)
        \/ GetConversation(w)

LongInit == LongStore /\ TruncIdle /\ RagIdle

SpecLong == LongInit /\ [][LongNext]_vars

=============================================================================
